---- MODULE Spec2Model ----
(***************************************************************************)
(* Repair shop (Django app "repair"): the cost rollup of Repair.total_cost *)
(* from its RepairWork / RepairComponent lines, the stock decrement of     *)
(* Component.quantity, and the generation of RepairAct numbers.            *)
(*                                                                         *)
(* Money is counted in whole units (DecimalField values are exact, so the  *)
(* products and sums below are exact integer arithmetic).                  *)
(***************************************************************************)
EXTENDS Integers, FiniteSets, Sequences, TLC

(***************************************************************************)
(* Bounds of the model.                                                    *)
(***************************************************************************)
MaxWorkLines == 1
MaxComponentLines == 2
MaxQuantity == 2
MaxPrice == 1
InitStock == 2
MaxSaves == 2
MaxDay == 2

RepairIds == {1, 2, 3}
\* the repairs stored before the first operation
InitialRepairs == {1, 2}
ComponentIds == {1, 2}
WorkTypeIds == {1, 2}
WorkLineIds == 1..MaxWorkLines
ComponentLineIds == 1..MaxComponentLines
Procs == {1, 2}
Quantities == 1..MaxQuantity
Prices == 0..MaxPrice
\* cost values a caller may have put on a line or a repair before calling save
SuppliedCosts == {7}

\* pk of an instance that was never saved (self.pk is None)
NoPk == 0
\* self.component not fetched yet: the first access fetches it from the table
NotCached == -1

VARIABLES
    repairs,     \* table Repair:          id -> [total_cost]
    works,       \* table RepairWork:      id -> [repair, work_type, unit_price, quantity, cost]
    components,  \* table RepairComponent: id -> [repair, component, unit_price, quantity, total_cost, was_purchased]
    stock,       \* table Component:       id -> quantity
    worktypes,   \* table WorkType:        the set of stored ids
    acts,        \* table RepairAct:       id -> [repair, act_number, created_at, notes]
    today,       \* the date datetime.now() returns
    inst,        \* line instances in memory, one per caller: p -> instance
    pc,          \* position of caller p inside a line save that runs statement by statement
    tmp,         \* the total the caller's Repair instance holds in memory
    view,        \* repair_act requests: p -> [pc, repair, act, err]
    saves,       \* number of line instances handed to save so far
    overlapped,  \* whether two callers ever held a line instance at the same time
    drawn,       \* component id -> sum of the quantities whose stock guard passed
    issued,      \* act id -> [repair, act_number] the act had when it was inserted
    last         \* what the last completed operation was, with what it saw before

vars == <<repairs, works, components, stock, worktypes, acts, today, inst, pc, tmp, view,
          saves, overlapped, drawn, issued, last>>

(***************************************************************************)
(* Tables are functions whose domain is the set of stored primary keys.    *)
(***************************************************************************)
Put(table, id, row) ==
    [k \in DOMAIN table \cup {id} |-> IF k = id THEN row ELSE table[k]]

Drop(f, k) == [x \in DOMAIN f \ {k} |-> f[x]]

\* The primary key the database gives a new row.
NextPk(table, ids) == CHOOSE k \in ids \ DOMAIN table : \A j \in ids \ DOMAIN table : k <= j

RECURSIVE SumWorkCost(_, _)
SumWorkCost(table, ids) ==
    IF ids = {} THEN 0
    ELSE LET k == CHOOSE x \in ids : TRUE
         IN  table[k].cost + SumWorkCost(table, ids \ {k})

RECURSIVE SumComponentCost(_, _)
SumComponentCost(table, ids) ==
    IF ids = {} THEN 0
    ELSE LET k == CHOOSE x \in ids : TRUE
         IN  table[k].total_cost + SumComponentCost(table, ids \ {k})

\* self.works.all() / self.components.all() of the repair with primary key pk
WorksOf(w, pk) == {k \in DOMAIN w : w[k].repair = pk}
ComponentsOf(c, pk) == {k \in DOMAIN c : c[k].repair = pk}

\* Repair.calculate_total_cost on the tables w (RepairWork) and c (RepairComponent)
calculate_total_cost_works_only(pk, w, c) ==
    IF pk = NoPk THEN 0 ELSE SumWorkCost(w, WorksOf(w, pk))

calculate_total_cost(pk, w, c) ==
    IF pk = NoPk THEN 0
    ELSE SumWorkCost(w, WorksOf(w, pk)) + SumComponentCost(c, ComponentsOf(c, pk))

\* self.cost = self.unit_price * self.quantity (the value the caller supplied is overwritten)
LineCostKeepSupplied(unit_price, quantity, supplied) == supplied

LineCost(unit_price, quantity, supplied) == unit_price * quantity

\* not self.was_purchased and self.component.quantity >= self.quantity
StockGuardNoCheck(was_purchased, held, quantity) == ~was_purchased

StockGuard(was_purchased, held, quantity) == ~was_purchased /\ held >= quantity

\* Whether the save of instance i draws stock.  The guard looks at was_purchased and
\* at the two quantities only: whether the line is new (i.pk = NoPk) or was stored,
\* and had drawn stock, before this save makes no difference.
DrawsStockOncePerLine(i, held) ==
    i.pk = NoPk /\ StockGuard(i.was_purchased, held, i.quantity)

DrawsStock(i, held) == StockGuard(i.was_purchased, held, i.quantity)

NoLast == [op |-> "none"]

Init ==
    /\ repairs = [r \in InitialRepairs |-> [total_cost |-> 0]]
    /\ works = <<>>
    /\ components = <<>>
    /\ stock = [c \in ComponentIds |-> InitStock]
    /\ worktypes = WorkTypeIds
    /\ acts = <<>>
    /\ today = 1
    /\ inst = <<>>
    /\ pc = [p \in Procs |-> "idle"]
    /\ tmp = [p \in Procs |-> 0]
    /\ view = <<>>
    /\ saves = 0
    /\ overlapped = FALSE
    /\ drawn = [c \in ComponentIds |-> 0]
    /\ issued = <<>>
    /\ last = NoLast

(***************************************************************************)
(* Line instances.  A caller (an admin inline form, a script) builds a new *)
(* line or loads a stored one; it may set any field of it before it calls  *)
(* save, so the field values are inputs of save.  What the instance keeps  *)
(* from the moment it was built is its primary key and its Component: the  *)
(* instance reaches the Component through self.component, which is either  *)
(* a Component object the caller has bound, whose quantity is the one read *)
(* when it was bound (held), or is fetched on first access (NotCached).    *)
(***************************************************************************)
Pending(kind) == {q \in DOMAIN inst : inst[q].kind = kind /\ inst[q].pk = NoPk}

Instance(kind, pk, c, held) ==
    [kind |-> kind, pk |-> pk, repair |-> 0, work_type |-> 0, component |-> c,
     unit_price |-> 0, quantity |-> 0, was_purchased |-> FALSE, held |-> held]

\* the instance with the field values the caller has set
WithFields(i, r, u, q, wp) ==
    [i EXCEPT !.repair = r, !.unit_price = u, !.quantity = q, !.was_purchased = wp]

\* callers are interchangeable: a new instance takes the lowest free slot
FreeSlot(p) == p \notin DOMAIN inst /\ \A q \in Procs : q < p => q \in DOMAIN inst

MakeRepairWork(p) ==
    /\ FreeSlot(p)
    /\ pc[p] = "idle"
    /\ saves < MaxSaves
    /\ \E pk \in {NoPk} \cup DOMAIN works :
          /\ pk = NoPk => Cardinality(DOMAIN works) + Cardinality(Pending("work")) < MaxWorkLines
          /\ inst' = Put(inst, p, Instance("work", pk, 0, NotCached))
    /\ saves' = saves + 1
    /\ overlapped' = (overlapped \/ DOMAIN inst # {})
    /\ UNCHANGED <<worktypes, repairs, works, components, stock, acts, today, pc, tmp, view, drawn, last, issued>>

MakeRepairComponent(p) ==
    /\ FreeSlot(p)
    /\ pc[p] = "idle"
    /\ saves < MaxSaves
    /\ \E pk \in {NoPk} \cup DOMAIN components, c \in DOMAIN stock, cached \in BOOLEAN :
          /\ pk = NoPk => Cardinality(DOMAIN components) + Cardinality(Pending("component"))
                             < MaxComponentLines
          /\ inst' = Put(inst, p, Instance("component", pk, c,
                                           IF cached THEN stock[c] ELSE NotCached))
    /\ saves' = saves + 1
    /\ overlapped' = (overlapped \/ DOMAIN inst # {})
    /\ UNCHANGED <<worktypes, repairs, works, components, stock, acts, today, pc, tmp, view, drawn, last, issued>>

\* the parent repairs the caller may give the line: any stored repair, or, when
\* reparent is false, only the one a stored line already has
Parents(table, pk, reparent) ==
    IF pk \in DOMAIN table /\ ~reparent THEN {table[pk].repair} ELSE DOMAIN repairs

\* the row super().save() writes for a RepairWork
RepairWorkRow(i, supplied) ==
    [repair |-> i.repair, work_type |-> i.work_type, unit_price |-> i.unit_price,
     quantity |-> i.quantity, cost |-> LineCost(i.unit_price, i.quantity, supplied)]

\* the row super().save() writes for a RepairComponent
RepairComponentRow(i, supplied) ==
    [repair |-> i.repair, component |-> i.component, unit_price |-> i.unit_price,
     quantity |-> i.quantity,
     total_cost |-> LineCost(i.unit_price, i.quantity, supplied),
     was_purchased |-> i.was_purchased]

\* Repair.save: the total_cost it writes.  total is the value the instance
\* holds when save is called; a repair that has a pk recomputes it.
RepairSaveTotalKeepSupplied(pk, total, w, c) == total

RepairSaveTotal(pk, total, w, c) ==
    IF pk # NoPk THEN calculate_total_cost(pk, w, c) ELSE total

\* self.repair.total_cost = self.repair.calculate_total_cost()
\* self.repair.save(update_fields=['total_cost'])
RepairSaveStored(rep, pk, w, c) ==
    [rep EXCEPT ![pk] =
        [total_cost |-> RepairSaveTotal(pk, calculate_total_cost(pk, w, c), w, c)]]

\* self.component.quantity as the instance sees it when the guard is evaluated
HeldQuantity(i, st) == IF i.held = NotCached THEN st[i.component] ELSE i.held

\* Whether write k of a save is in the database when the save ends, given that
\* write failAt raised (0: none did).  Nothing wraps the writes of a save in a
\* transaction: the writes made before the raise stay, those after it are not made.
PerformedAllOrNothing(k, failAt) == failAt = 0

Performed(k, failAt) == failAt = 0 \/ k < failAt

Snapshot ==
    [repairs |-> repairs, works |-> works, components |-> components, stock |-> stock,
     worktypes |-> worktypes]

(***************************************************************************)
(* RepairWork.save, run to its end without another caller in between.      *)
(* Its writes are: 1 the line, 2 the repair total.  failAt = k > 0 means   *)
(* that write k raises; no statement after a raise is executed.            *)
(***************************************************************************)
RepairWorkSave(p, failAt, reparent) ==
    /\ p \in DOMAIN inst
    /\ inst[p].kind = "work"
    /\ pc[p] = "idle"
    /\ failAt \in 0..2
    /\ \E r \in Parents(works, inst[p].pk, reparent), t \in worktypes, u \in Prices,
          q \in Quantities, supplied \in SuppliedCosts :
          LET i  == [WithFields(inst[p], r, u, q, FALSE) EXCEPT !.work_type = t]
              id == IF i.pk = NoPk THEN NextPk(works, WorkLineIds) ELSE i.pk
              wrow == Put(works, id, RepairWorkRow(i, supplied))
              w1 == IF Performed(1, failAt) THEN wrow ELSE works
              r1 == IF Performed(2, failAt)
                    THEN RepairSaveStored(repairs, i.repair, wrow, components)
                    ELSE repairs
          IN  /\ works' = w1
              /\ repairs' = r1
              /\ last' = [op |-> "RepairWork.save", inst |-> i, pk |-> id,
                          supplied |-> supplied, held |-> NotCached, guard |-> FALSE,
                          failAt |-> failAt, err |-> failAt # 0, pre |-> Snapshot]
    /\ inst' = Drop(inst, p)
    /\ UNCHANGED <<worktypes, components, stock, acts, today, pc, tmp, view, saves, overlapped, drawn, issued>>

(***************************************************************************)
(* RepairComponent.save, run to its end without another caller in between. *)
(* Its writes are: 1 the line, 2 the repair total, 3 the component stock   *)
(* (only when the guard passes).                                           *)
(***************************************************************************)
RepairComponentSave(p, failAt, reparent) ==
    /\ p \in DOMAIN inst
    /\ inst[p].kind = "component"
    /\ pc[p] = "idle"
    /\ failAt \in 0..3
    /\ \E r \in Parents(components, inst[p].pk, reparent), u \in Prices, q \in Quantities,
          wp \in BOOLEAN, supplied \in SuppliedCosts :
          LET i     == WithFields(inst[p], r, u, q, wp)
              id    == IF i.pk = NoPk THEN NextPk(components, ComponentLineIds) ELSE i.pk
              crow  == Put(components, id, RepairComponentRow(i, supplied))
              c1    == IF Performed(1, failAt) THEN crow ELSE components
              r1    == IF Performed(2, failAt)
                       THEN RepairSaveStored(repairs, i.repair, works, crow)
                       ELSE repairs
              held  == HeldQuantity(i, stock)
              guard == DrawsStock(i, held)
              wrote == guard /\ Performed(3, failAt)
          IN  /\ failAt = 3 => guard
              /\ components' = c1
              /\ repairs' = r1
              /\ stock' = IF wrote THEN [stock EXCEPT ![i.component] = held - i.quantity]
                          ELSE stock
              /\ drawn' = IF wrote THEN [drawn EXCEPT ![i.component] = @ + i.quantity]
                          ELSE drawn
              /\ last' = [op |-> "RepairComponent.save", inst |-> i, pk |-> id,
                          supplied |-> supplied, held |-> held, guard |-> guard,
                          failAt |-> failAt, err |-> failAt # 0, pre |-> Snapshot]
    /\ inst' = Drop(inst, p)
    /\ UNCHANGED <<worktypes, works, acts, today, pc, tmp, view, saves, overlapped, issued>>

(***************************************************************************)
(* Repair.save called by a caller who has put the value supplied into      *)
(* total_cost: of a new repair (pk = NoPk, inserted) or of a stored one.   *)
(***************************************************************************)
RepairSave(pk, supplied) ==
    /\ pk = NoPk => RepairIds \ DOMAIN repairs # {}
    /\ LET id == IF pk = NoPk THEN NextPk(repairs, RepairIds) ELSE pk
       IN  /\ repairs' = Put(repairs, id,
                   [total_cost |-> RepairSaveTotal(pk, supplied, works, components)])
           /\ last' = [op |-> "Repair.save", pk |-> pk, id |-> id, supplied |-> supplied,
                       pre |-> Snapshot]
    /\ UNCHANGED <<worktypes, works, components, stock, acts, today, inst, pc, tmp, view, saves,
                   overlapped, drawn, issued>>

(***************************************************************************)
(* Repair.calculate_total_cost called on a Repair instance (pk = NoPk: one *)
(* that was never saved).  It returns a value and writes nothing.          *)
(***************************************************************************)
CalculateTotalCost(pk) ==
    /\ last' = [op |-> "Repair.calculate_total_cost", pk |-> pk,
                result |-> calculate_total_cost(pk, works, components),
                pre |-> Snapshot]
    /\ UNCHANGED <<worktypes, repairs, works, components, stock, acts, today, inst, pc, tmp, view,
                   saves, overlapped, drawn, issued>>

(***************************************************************************)
(* Line saves only, one at a time, none failing.                           *)
(***************************************************************************)
NextLines ==
    \E p \in Procs :
        \/ MakeRepairWork(p)
        \/ MakeRepairComponent(p)
        \/ RepairWorkSave(p, 0, TRUE)
        \/ RepairComponentSave(p, 0, TRUE)

SpecLines == Init /\ [][NextLines]_vars

(***************************************************************************)
(* Line saves one at a time, where any write of a save may raise.          *)
(***************************************************************************)
NextFail ==
    \E p \in Procs :
        \/ MakeRepairWork(p)
        \/ MakeRepairComponent(p)
        \/ \E failAt \in 0..2 : RepairWorkSave(p, failAt, TRUE)
        \/ \E failAt \in 0..3 : RepairComponentSave(p, failAt, TRUE)

SpecFail == Init /\ [][NextFail]_vars

(***************************************************************************)
(* Line saves of concurrent callers, statement by statement.  Each query   *)
(* is its own transaction (no transaction.atomic, no select_for_update),   *)
(* so another caller's statements may run between any two of these steps.  *)
(* Stored lines keep their parent repair here.                             *)
(***************************************************************************)
Finish(p) ==
    /\ inst' = Drop(inst, p)
    /\ pc' = [pc EXCEPT ![p] = "idle"]

\* self.cost = ...; super().save()
StepLineWrite(p) ==
    /\ p \in DOMAIN inst
    /\ pc[p] = "idle"
    /\ \E r \in Parents(IF inst[p].kind = "work" THEN works ELSE components, inst[p].pk, FALSE),
          t \in worktypes, u \in Prices, q \in Quantities, wp \in BOOLEAN,
          supplied \in SuppliedCosts :
          LET i  == [WithFields(inst[p], r, u, q, wp /\ inst[p].kind = "component")
                        EXCEPT !.work_type = IF inst[p].kind = "work" THEN t ELSE 0]
              id == IF i.pk # NoPk THEN i.pk
                    ELSE IF i.kind = "work" THEN NextPk(works, WorkLineIds)
                    ELSE NextPk(components, ComponentLineIds)
          IN  /\ (inst[p].kind = "work") => ~wp
              /\ (inst[p].kind = "component") => t = CHOOSE x \in worktypes : TRUE
              /\ IF i.kind = "work"
                 THEN /\ works' = Put(works, id, RepairWorkRow(i, supplied))
                      /\ UNCHANGED components
                 ELSE /\ components' = Put(components, id, RepairComponentRow(i, supplied))
                      /\ UNCHANGED works
              /\ inst' = [inst EXCEPT ![p] = [i EXCEPT !.pk = id]]
    /\ pc' = [pc EXCEPT ![p] = "total"]
    /\ UNCHANGED <<worktypes, repairs, stock, acts, today, tmp, view, saves, overlapped, drawn, last, issued>>

\* self.repair.total_cost = self.repair.calculate_total_cost()
StepCalculate(p) ==
    /\ p \in DOMAIN inst
    /\ pc[p] = "total"
    /\ tmp' = [tmp EXCEPT ![p] = calculate_total_cost(inst[p].repair, works, components)]
    /\ pc' = [pc EXCEPT ![p] = "rsave"]
    /\ UNCHANGED <<worktypes, repairs, works, components, stock, acts, today, inst, view, saves,
                   overlapped, drawn, last, issued>>

\* Repair.save: if self.pk: self.total_cost = self.calculate_total_cost()
StepRepairSaveCalculate(p) ==
    /\ p \in DOMAIN inst
    /\ pc[p] = "rsave"
    /\ tmp' = [tmp EXCEPT ![p] = RepairSaveTotal(inst[p].repair, tmp[p], works, components)]
    /\ pc' = [pc EXCEPT ![p] = "rwrite"]
    /\ UNCHANGED <<worktypes, repairs, works, components, stock, acts, today, inst, view, saves,
                   overlapped, drawn, last, issued>>

\* Repair.save: super().save(update_fields=['total_cost'])
StepRepairSaveWrite(p) ==
    /\ p \in DOMAIN inst
    /\ pc[p] = "rwrite"
    /\ repairs' = [repairs EXCEPT ![inst[p].repair] = [total_cost |-> tmp[p]]]
    /\ tmp' = [tmp EXCEPT ![p] = 0]
    /\ IF inst[p].kind = "component"
       THEN /\ pc' = [pc EXCEPT ![p] = "stock"]
            /\ UNCHANGED inst
       ELSE Finish(p)
    /\ UNCHANGED <<worktypes, works, components, stock, acts, today, view, saves, overlapped, drawn, last, issued>>

\* if not self.was_purchased and self.component.quantity >= self.quantity:
\*     self.component.quantity -= self.quantity
StepStockGuard(p) ==
    /\ p \in DOMAIN inst
    /\ pc[p] = "stock"
    /\ LET i    == inst[p]
           held == HeldQuantity(i, stock)
       IN  IF StockGuard(i.was_purchased, held, i.quantity)
           THEN /\ inst' = [inst EXCEPT ![p].held = held - i.quantity]
                /\ pc' = [pc EXCEPT ![p] = "swrite"]
           ELSE Finish(p)
    /\ UNCHANGED <<worktypes, repairs, works, components, stock, acts, today, tmp, view, saves,
                   overlapped, drawn, last, issued>>

\* self.component.save(update_fields=['quantity'])
StepStockWrite(p) ==
    /\ p \in DOMAIN inst
    /\ pc[p] = "swrite"
    /\ stock' = [stock EXCEPT ![inst[p].component] = inst[p].held]
    /\ drawn' = [drawn EXCEPT ![inst[p].component] = @ + inst[p].quantity]
    /\ Finish(p)
    /\ UNCHANGED <<worktypes, repairs, works, components, acts, today, tmp, view, saves, overlapped, last, issued>>

NextConc ==
    \E p \in Procs :
        \/ MakeRepairWork(p)
        \/ MakeRepairComponent(p)
        \/ StepLineWrite(p)
        \/ StepCalculate(p)
        \/ StepRepairSaveCalculate(p)
        \/ StepRepairSaveWrite(p)
        \/ StepStockGuard(p)
        \/ StepStockWrite(p)

SpecConc == Init /\ [][NextConc]_vars

(***************************************************************************)
(* Repair acts.  An act number is the text ACT-<date>-<repair id>; the     *)
(* date is written as eight digits, so two numbers are the same text       *)
(* exactly when their dates and their repair ids are the same.  The empty  *)
(* text is the empty tuple.                                                *)
(***************************************************************************)
ActIds == {1, 2, 3}
Notes == {"", "note"}
EmptyNumber == <<>>

\* f"ACT-{datetime.now().strftime('%Y%m%d')}-{self.repair.id}"
FormatActNumber(day, r) == <<"ACT", day, r>>

\* RepairAct.save: if not self.act_number: self.act_number = ...
ActNumberRegenerated(current, day, r) == FormatActNumber(day, r)

ActNumberOnSave(current, day, r) ==
    IF current = EmptyNumber THEN FormatActNumber(day, r) ELSE current

\* OneToOneField(Repair) and act_number unique=True: what the database checks on insert
UniqueNotEnforced(table, row) == TRUE

UniqueOk(table, row) ==
    \A k \in DOMAIN table :
        table[k].repair # row.repair /\ table[k].act_number # row.act_number

ActsOf(r) == {k \in DOMAIN acts : acts[k].repair = r}

\* a new RepairAct(repair=r) as RepairAct.save inserts it
NewActRow(r, notes) ==
    [repair |-> r, act_number |-> ActNumberOnSave(EmptyNumber, today, r),
     created_at |-> today, notes |-> notes]

Tick ==
    /\ today < MaxDay
    /\ today' = today + 1
    /\ UNCHANGED <<worktypes, repairs, works, components, stock, acts, inst, pc, tmp, view, saves,
                   overlapped, drawn, issued, last>>

(***************************************************************************)
(* RepairAct.save of a new act for repair r (pk = NoPk; the admin's add    *)
(* form) or of the stored act pk, loaded and given other notes or another  *)
(* printed_at (r is then the act's own repair).                            *)
(***************************************************************************)
RepairActSave(pk, r, notes) ==
    /\ pk = NoPk => ActIds \ DOMAIN acts # {}
    /\ pk # NoPk => r = acts[pk].repair
    /\ LET id  == IF pk = NoPk THEN NextPk(acts, ActIds) ELSE pk
           row == IF pk = NoPk THEN NewActRow(r, notes)
                  ELSE [acts[pk] EXCEPT
                          !.act_number = ActNumberOnSave(acts[pk].act_number, today, r),
                          !.notes = notes]
           ok  == pk # NoPk \/ UniqueOk(acts, row)
       IN  /\ acts' = IF ok THEN Put(acts, id, row) ELSE acts
           /\ issued' = IF ok /\ pk = NoPk
                        THEN Put(issued, id, [repair |-> r, act_number |-> row.act_number])
                        ELSE issued
           /\ last' = [op |-> "RepairAct.save", pk |-> pk, id |-> id, repair |-> r,
                       err |-> ~ok, day |-> today]
    /\ UNCHANGED <<worktypes, repairs, works, components, stock, today, inst, pc, tmp, view, saves,
                   overlapped, drawn>>

(***************************************************************************)
(* The repair_act view: RepairAct.objects.get_or_create(repair=repair),    *)
(* query by query.  get_or_create is: get; if there is none, create; if    *)
(* the insert raises IntegrityError, get again, and raise if there is      *)
(* still none.                                                             *)
(***************************************************************************)
ViewStart(p, r) ==
    /\ p \notin DOMAIN view
    /\ view' = Put(view, p, [pc |-> "get", repair |-> r, act |-> 0, created |-> FALSE,
                             err |-> FALSE])
    /\ UNCHANGED <<worktypes, repairs, works, components, stock, acts, today, inst, pc, tmp, saves,
                   overlapped, drawn, issued, last>>

ViewGet(p) ==
    /\ p \in DOMAIN view
    /\ view[p].pc = "get"
    /\ LET found == ActsOf(view[p].repair)
       IN  view' = [view EXCEPT ![p] =
                      IF found # {}
                      THEN [@ EXCEPT !.pc = "done", !.act = CHOOSE k \in found : TRUE]
                      ELSE [@ EXCEPT !.pc = "create"]]
    /\ UNCHANGED <<worktypes, repairs, works, components, stock, acts, today, inst, pc, tmp, saves,
                   overlapped, drawn, issued, last>>

ViewCreate(p) ==
    /\ p \in DOMAIN view
    /\ view[p].pc = "create"
    /\ ActIds \ DOMAIN acts # {}
    /\ LET r   == view[p].repair
           id  == NextPk(acts, ActIds)
           row == NewActRow(r, "")
       IN  IF UniqueOk(acts, row)
           THEN /\ acts' = Put(acts, id, row)
                /\ issued' = Put(issued, id, [repair |-> r, act_number |-> row.act_number])
                /\ view' = [view EXCEPT ![p] =
                              [@ EXCEPT !.pc = "done", !.act = id, !.created = TRUE]]
           ELSE /\ view' = [view EXCEPT ![p] = [@ EXCEPT !.pc = "reget"]]
                /\ UNCHANGED <<worktypes, acts, issued>>
    /\ UNCHANGED <<worktypes, repairs, works, components, stock, today, inst, pc, tmp, saves,
                   overlapped, drawn, last>>

ViewGetAgain(p) ==
    /\ p \in DOMAIN view
    /\ view[p].pc = "reget"
    /\ LET found == ActsOf(view[p].repair)
       IN  view' = [view EXCEPT ![p] =
                      IF found # {}
                      THEN [@ EXCEPT !.pc = "done", !.act = CHOOSE k \in found : TRUE]
                      ELSE [@ EXCEPT !.pc = "done", !.err = TRUE]]
    /\ UNCHANGED <<worktypes, repairs, works, components, stock, acts, today, inst, pc, tmp, saves,
                   overlapped, drawn, issued, last>>

\* the response is rendered and the request is over
ViewReturn(p) ==
    /\ p \in DOMAIN view
    /\ view[p].pc = "done"
    /\ view' = Drop(view, p)
    /\ UNCHANGED <<worktypes, repairs, works, components, stock, acts, today, inst, pc, tmp, saves,
                   overlapped, drawn, issued, last>>

NextAct ==
    \/ Tick
    \/ \E pk \in {NoPk} \cup DOMAIN acts, r \in DOMAIN repairs, notes \in Notes :
          RepairActSave(pk, r, notes)
    \/ \E p \in Procs :
          \/ \E r \in DOMAIN repairs : ViewStart(p, r)
          \/ ViewGet(p)
          \/ ViewCreate(p)
          \/ ViewGetAgain(p)
          \/ ViewReturn(p)

SpecAct == Init /\ [][NextAct]_vars

(***************************************************************************)
(* Every save runs to its end before the next operation starts, and no     *)
(* write fails.                                                            *)
(***************************************************************************)
Next ==
    \/ \E p \in Procs :
          \/ MakeRepairWork(p)
          \/ MakeRepairComponent(p)
          \/ RepairWorkSave(p, 0, TRUE)
          \/ RepairComponentSave(p, 0, TRUE)
    \/ \E pk \in {NoPk} \cup DOMAIN repairs, supplied \in SuppliedCosts :
          RepairSave(pk, supplied)
    \/ \E pk \in {NoPk} \cup DOMAIN repairs : CalculateTotalCost(pk)

Spec == Init /\ [][Next]_vars

(***************************************************************************)
(* Deletes.  RepairWork.work_type and RepairComponent.component are        *)
(* ForeignKeys with on_delete=PROTECT: the delete of a WorkType or a       *)
(* Component that a line references raises ProtectedError before anything  *)
(* is written.  No model overrides delete and nothing listens to a delete, *)
(* so the delete of a line removes its row and does nothing else.          *)
(***************************************************************************)
ComponentRefs(c) == {k \in DOMAIN components : components[k].component = c}
WorkTypeRefs(t) == {k \in DOMAIN works : works[k].work_type = t}

\* on_delete=models.PROTECT: whether the delete is refused, given the referencing lines
OnDeleteDoNothing(refs) == FALSE

OnDeleteProtect(refs) == refs # {}

ComponentDelete(c) ==
    /\ c \in DOMAIN stock
    /\ LET refused == OnDeleteProtect(ComponentRefs(c))
       IN  /\ stock' = IF refused THEN stock ELSE Drop(stock, c)
           /\ last' = [op |-> "Component.delete", id |-> c, err |-> refused,
                       pre |-> Snapshot]
    /\ UNCHANGED <<repairs, works, components, worktypes, acts, today, inst, pc, tmp, view,
                   saves, overlapped, drawn, issued>>

WorkTypeDelete(t) ==
    /\ t \in worktypes
    /\ LET refused == OnDeleteProtect(WorkTypeRefs(t))
       IN  /\ worktypes' = IF refused THEN worktypes ELSE worktypes \ {t}
           /\ last' = [op |-> "WorkType.delete", id |-> t, err |-> refused,
                       pre |-> Snapshot]
    /\ UNCHANGED <<repairs, works, components, stock, acts, today, inst, pc, tmp, view,
                   saves, overlapped, drawn, issued>>

\* The Repair table after the delete of a line of repair r, w and c being the line
\* tables after it: the rollup is part of the lines' save only, so it is as before.
TotalsAfterLineDeleteRecomputed(rep, r, w, c) == RepairSaveStored(rep, r, w, c)

TotalsAfterLineDelete(rep, r, w, c) == rep

\* RepairWork.delete (models.Model.delete): the row goes, nothing else is written
RepairWorkDelete(k) ==
    /\ k \in DOMAIN works
    /\ works' = Drop(works, k)
    /\ repairs' = TotalsAfterLineDelete(repairs, works[k].repair, Drop(works, k), components)
    /\ last' = [op |-> "RepairWork.delete", pk |-> k, repair |-> works[k].repair,
                cost |-> works[k].cost, pre |-> Snapshot]
    /\ UNCHANGED <<components, stock, worktypes, acts, today, inst, pc, tmp, view,
                   saves, overlapped, drawn, issued>>

\* RepairComponent.delete (models.Model.delete)
RepairComponentDelete(k) ==
    /\ k \in DOMAIN components
    /\ components' = Drop(components, k)
    /\ repairs' = TotalsAfterLineDelete(repairs, components[k].repair, works,
                                        Drop(components, k))
    /\ last' = [op |-> "RepairComponent.delete", pk |-> k, repair |-> components[k].repair,
                cost |-> components[k].total_cost, pre |-> Snapshot]
    /\ UNCHANGED <<works, stock, worktypes, acts, today, inst, pc, tmp, view,
                   saves, overlapped, drawn, issued>>

\* A line save whose WorkType / Component was deleted after the caller had picked
\* it: the database refuses the row in super().save() (foreign key constraint),
\* the IntegrityError reaches the caller and nothing is written.
RepairWorkSaveIntegrityError(p) ==
    /\ p \in DOMAIN inst
    /\ inst[p].kind = "work"
    /\ pc[p] = "idle"
    /\ \E t \in WorkTypeIds \ worktypes :
          last' = [op |-> "RepairWork.save", inst |-> [inst[p] EXCEPT !.work_type = t],
                   pk |-> inst[p].pk, supplied |-> 0, held |-> NotCached, guard |-> FALSE,
                   failAt |-> 1, err |-> TRUE, pre |-> Snapshot]
    /\ inst' = Drop(inst, p)
    /\ UNCHANGED <<repairs, works, components, stock, worktypes, acts, today, pc, tmp, view,
                   saves, overlapped, drawn, issued>>

RepairComponentSaveIntegrityError(p) ==
    /\ p \in DOMAIN inst
    /\ inst[p].kind = "component"
    /\ pc[p] = "idle"
    /\ inst[p].component \notin DOMAIN stock
    /\ last' = [op |-> "RepairComponent.save", inst |-> inst[p], pk |-> inst[p].pk,
                supplied |-> 0, held |-> inst[p].held, guard |-> FALSE,
                failAt |-> 1, err |-> TRUE, pre |-> Snapshot]
    /\ inst' = Drop(inst, p)
    /\ UNCHANGED <<repairs, works, components, stock, worktypes, acts, today, pc, tmp, view,
                   saves, overlapped, drawn, issued>>

(***************************************************************************)
(* Saves and deletes, each run to its end before the next operation.       *)
(***************************************************************************)
NextDelete ==
    \/ \E p \in Procs :
          \/ MakeRepairWork(p)
          \/ MakeRepairComponent(p)
          \/ RepairWorkSave(p, 0, TRUE)
          \/ RepairWorkSaveIntegrityError(p)
          \/ /\ p \in DOMAIN inst
             /\ inst[p].component \in DOMAIN stock
             /\ RepairComponentSave(p, 0, TRUE)
          \/ RepairComponentSaveIntegrityError(p)
    \/ \E pk \in DOMAIN repairs, supplied \in SuppliedCosts : RepairSave(pk, supplied)
    \/ \E c \in ComponentIds : ComponentDelete(c)
    \/ \E t \in WorkTypeIds : WorkTypeDelete(t)
    \/ \E k \in WorkLineIds : RepairWorkDelete(k)
    \/ \E k \in ComponentLineIds : RepairComponentDelete(k)

SpecDelete == Init /\ [][NextDelete]_vars

(***************************************************************************)
(* Properties.                                                             *)
(***************************************************************************)
\* the sum of the costs of the lines now attached to repair r
LineSum(r) ==
    SumWorkCost(works, WorksOf(works, r))
        + SumComponentCost(components, ComponentsOf(components, r))

LastIs(op) == last.op = op

\* C1 (as claimed): after any sequence of RepairWork.save and RepairComponent.save
\* calls, every stored repair's total_cost is the sum of the costs of the lines
\* attached to it.  Checked under SpecLines; a line saved with another parent repair
\* leaves the total of its former repair as it was.
C1_TotalCostIsLineSum ==
    \A r \in DOMAIN repairs : repairs[r].total_cost = LineSum(r)

\* C2: every stored RepairWork has cost = unit_price * quantity and every stored
\* RepairComponent has total_cost = unit_price * quantity, whatever the caller had
\* put into the cost field.
C2_LineCostDerived ==
    /\ \A k \in DOMAIN works : works[k].cost = works[k].unit_price * works[k].quantity
    /\ \A k \in DOMAIN components :
          components[k].total_cost = components[k].unit_price * components[k].quantity

\* C2 witness: a work line and a component line are stored, and the line saved last
\* was handed a cost that is not the product.
C2_Witness ==
    /\ DOMAIN works # {}
    /\ LastIs("RepairComponent.save")
    /\ last.pk \in DOMAIN components
    /\ last.supplied # last.inst.unit_price * last.inst.quantity

\* C3 (as claimed): a RepairComponent.save with was_purchased false and quantity <=
\* the stock of the component takes exactly quantity off that stock and changes no
\* other stock; with was_purchased true every stock stays as it was.
C3_StockDecrement ==
    LastIs("RepairComponent.save") =>
        LET i == last.inst
            before == last.pre.stock
        IN  /\ (~i.was_purchased /\ i.quantity <= before[i.component]) =>
                   stock = [before EXCEPT ![i.component] = @ - i.quantity]
            /\ i.was_purchased => stock = before

\* C4 (as claimed): a RepairComponent.save with was_purchased false and quantity >
\* the stock of the component raises nothing and leaves the stock as it was, the
\* line is stored and the repair's total includes it.
C4_InsufficientStockSkipped ==
    LastIs("RepairComponent.save") =>
        LET i == last.inst
            before == last.pre.stock
        IN  (~i.was_purchased /\ i.quantity > before[i.component]) =>
                /\ ~last.err
                /\ stock = before
                /\ last.pk \in DOMAIN components
                /\ components[last.pk].repair = i.repair
                /\ components[last.pk].total_cost = i.unit_price * i.quantity
                /\ repairs[i.repair].total_cost = LineSum(i.repair)

\* C7: Repair.save of a stored repair writes the sum of its current lines over the
\* total_cost the caller supplied; calculate_total_cost of a repair that was never
\* saved returns 0 and writes nothing.
C7_RepairSaveRecomputes ==
    /\ (LastIs("Repair.save") /\ last.pk # NoPk) =>
           repairs[last.pk].total_cost = LineSum(last.pk)
    /\ (LastIs("Repair.calculate_total_cost") /\ last.pk = NoPk) =>
           last.result = 0 /\ Snapshot = last.pre

\* C7 witness: a stored repair with lines was saved with a supplied total that is
\* not the sum of its lines.
C7_Witness ==
    /\ LastIs("Repair.save")
    /\ last.pk # NoPk
    /\ LineSum(last.pk) > 0
    /\ last.supplied # LineSum(last.pk)
    /\ last.pre.repairs[last.pk].total_cost = LineSum(last.pk)

\* C5: no two stored acts have the same act_number, and a stored act has the number
\* it was inserted with, whatever saves of it followed (on later dates, with other
\* notes).  Checked under SpecAct.
C5_ActNumberUniqueAndFixed ==
    /\ \A a, b \in DOMAIN acts : a # b => acts[a].act_number # acts[b].act_number
    /\ \A a \in DOMAIN acts :
          /\ acts[a].act_number # EmptyNumber
          /\ acts[a].act_number = issued[a].act_number

\* C5 witness: two acts are stored and one of them was saved again, with a note, on
\* a later date than the one it was created on.
C5_Witness ==
    /\ LastIs("RepairAct.save")
    /\ last.pk \in DOMAIN acts
    /\ today > acts[last.pk].created_at
    /\ acts[last.pk].notes = "note"
    /\ Cardinality(DOMAIN acts) >= 2

C8_StockNeverNegative == \A c \in ComponentIds : stock[c] >= 0

\* C8 witness: saves that overlapped have passed the guard for more units of a
\* component than were in stock, and its stock is 0.
C8_Witness ==
    /\ overlapped
    /\ inst = <<>>
    /\ \E c \in ComponentIds : drawn[c] > InitStock /\ stock[c] = 0

\* C9: a lost update needs overlapping saves: as long as no two callers held a line
\* at the same time, whenever no save is running every total_cost is the sum of the
\* repair's lines and every stock is the initial stock less the quantities drawn.
\* The witness is the lost update itself.  Checked under SpecConc.
C9_NoOverlapNoLostUpdate ==
    (~overlapped /\ inst = <<>>) =>
        /\ \A r \in DOMAIN repairs : repairs[r].total_cost = LineSum(r)
        /\ \A c \in ComponentIds : stock[c] = InitStock - drawn[c]

\* C9 witness: two saves have ended; a repair's total_cost is not the sum of its
\* lines, and a component whose stock sufficed for all that was drawn has lost less
\* than was drawn.
C9_Witness ==
    /\ inst = <<>>
    /\ saves >= 2
    /\ \E r \in DOMAIN repairs : repairs[r].total_cost # LineSum(r)
    /\ \E c \in ComponentIds : drawn[c] <= InitStock /\ stock[c] > InitStock - drawn[c]

\* the line of the last save is stored as the save derives it
LastLineStored ==
    LET i == last.inst
    IN  IF i.kind = "work"
        THEN /\ last.pk \in DOMAIN works
             /\ works[last.pk] = [repair |-> i.repair, work_type |-> i.work_type,
                                  unit_price |-> i.unit_price, quantity |-> i.quantity,
                                  cost |-> i.unit_price * i.quantity]
        ELSE /\ last.pk \in DOMAIN components
             /\ components[last.pk] = [repair |-> i.repair, component |-> i.component,
                                       unit_price |-> i.unit_price, quantity |-> i.quantity,
                                       total_cost |-> i.unit_price * i.quantity,
                                       was_purchased |-> i.was_purchased]

\* C10: a line save writes the line, then the repair total, then the stock.  When
\* write k raises, the caller gets the error, the writes before k are stored and
\* those from k on are not made: after a raise at 1 nothing has changed, after a
\* raise at 2 the line is stored and the total and the stock are as before, after a
\* raise at 3 the line and the total are stored and the stock is as before.
\* Checked under SpecFail.
C10_WritesInOrderNoRollback ==
    (LastIs("RepairWork.save") \/ LastIs("RepairComponent.save")) =>
        LET i == last.inst
            f == last.failAt
            pre == last.pre
        IN  /\ last.err <=> f # 0
            /\ f = 1 => Snapshot = pre
            /\ f # 1 => LastLineStored
            /\ f = 2 => repairs = pre.repairs /\ stock = pre.stock
            /\ f \in {0, 3} => repairs[i.repair].total_cost = LineSum(i.repair)
            /\ f = 3 => last.guard /\ stock = pre.stock
            /\ f = 0 => stock = IF last.guard
                                THEN [pre.stock EXCEPT ![i.component] = last.held - i.quantity]
                                ELSE pre.stock

\* C10 witness: the write of the total raised; the line is stored and the repair's
\* total_cost, left as it was, is not the sum of its lines.
C10_Witness ==
    /\ LastIs("RepairComponent.save")
    /\ last.failAt = 2
    /\ last.err
    /\ LastLineStored
    /\ repairs[last.inst.repair].total_cost # LineSum(last.inst.repair)
    /\ repairs[last.inst.repair] = last.pre.repairs[last.inst.repair]

\* C11: every stored line references a stored WorkType / Component; the delete of
\* a WorkType or Component that a line references ends with an error and leaves
\* every table as it was (no line is removed).  Checked under SpecDelete.
C11_ProtectedDeleteRejected ==
    /\ \A k \in DOMAIN components : components[k].component \in DOMAIN stock
    /\ \A k \in DOMAIN works : works[k].work_type \in worktypes
    /\ LastIs("Component.delete") =>
          LET refs == {k \in DOMAIN last.pre.components :
                          last.pre.components[k].component = last.id}
          IN  /\ last.err <=> refs # {}
              /\ last.err => Snapshot = last.pre
    /\ LastIs("WorkType.delete") =>
          LET refs == {k \in DOMAIN last.pre.works : last.pre.works[k].work_type = last.id}
          IN  /\ last.err <=> refs # {}
              /\ last.err => Snapshot = last.pre

\* C11 witness: the delete of a Component that a stored line references was refused;
\* the Component and the line are still stored and no table has changed.
C11_Witness ==
    /\ LastIs("Component.delete")
    /\ last.err
    /\ \E k \in DOMAIN components : components[k].component = last.id
    /\ last.id \in DOMAIN stock
    /\ Snapshot = last.pre

\* the sum of the costs of the lines attached to repair r in the tables of snapshot t
LineSumIn(t, r) ==
    SumWorkCost(t.works, WorksOf(t.works, r))
        + SumComponentCost(t.components, ComponentsOf(t.components, r))

LastIsLineDelete == LastIs("RepairWork.delete") \/ LastIs("RepairComponent.delete")

\* the last operation was a save that rolls up repair r: Repair.save of r, or a
\* line save that stored the line with parent r
LastRollsUp(r) ==
    \/ LastIs("Repair.save") /\ last.id = r
    \/ /\ LastIs("RepairWork.save") \/ LastIs("RepairComponent.save")
       /\ ~last.err
       /\ last.inst.repair = r

\* C12: the delete of a line removes the line's row and writes nothing else: the
\* repair's total_cost is as before, so a total that was the sum of the lines now
\* exceeds the sum of the remaining lines by the deleted line's cost, and no stock is
\* given back.  A total_cost that is not the sum of the lines becomes the sum again
\* only by a save of that repair or of a line with that repair as parent, and every
\* such save makes it the sum.  Checked under SpecDelete.
C12_DeleteTriggersNoRollup ==
    /\ LastIsLineDelete =>
          LET pre == last.pre
              r == last.repair
          IN  /\ repairs = pre.repairs
              /\ stock = pre.stock
              /\ worktypes = pre.worktypes
              /\ IF LastIs("RepairWork.delete")
                 THEN works = Drop(pre.works, last.pk) /\ components = pre.components
                 ELSE components = Drop(pre.components, last.pk) /\ works = pre.works
              /\ pre.repairs[r].total_cost = LineSumIn(pre, r) =>
                    repairs[r].total_cost = LineSum(r) + last.cost
    /\ last.op # "none" =>
          \A r \in DOMAIN repairs :
              /\ (/\ r \in DOMAIN last.pre.repairs
                  /\ last.pre.repairs[r].total_cost # LineSumIn(last.pre, r)
                  /\ repairs[r].total_cost = LineSum(r)) => LastRollsUp(r)
              /\ LastRollsUp(r) => repairs[r].total_cost = LineSum(r)

\* C12 witness: a component line that cost something and had drawn stock was
\* deleted; the repair's total_cost still counts it and the stock is still short of
\* the quantity drawn.
C12_Witness ==
    /\ LastIs("RepairComponent.delete")
    /\ last.cost > 0
    /\ last.pre.repairs[last.repair].total_cost = LineSumIn(last.pre, last.repair)
    /\ repairs[last.repair].total_cost = LineSum(last.repair) + last.cost
    /\ LET c == last.pre.components[last.pk].component
       IN  /\ c \in DOMAIN stock
           /\ drawn[c] > 0
           /\ stock[c] = InitStock - drawn[c]

\* C13: the stock is drawn per save, not per line.  The save of a line that was
\* stored before, with was_purchased false, passes the guard exactly when the
\* Component quantity the instance holds is at least the line's quantity, and then
\* writes that quantity less the line's quantity, as the line's first save did; when
\* the quantity held is the stored one, the stock drops by the line's quantity once
\* more.  The repair's total_cost is the sum of its lines, this line counted once.
\* Checked under Spec.
C13_StockDrawnPerSave ==
    (/\ LastIs("RepairComponent.save")
     /\ last.pk \in DOMAIN last.pre.components
     /\ ~last.inst.was_purchased) =>
        LET i == last.inst
            c == i.component
            before == last.pre.stock
        IN  /\ last.guard <=> last.held >= i.quantity
            /\ last.guard => stock = [before EXCEPT ![c] = last.held - i.quantity]
            /\ (last.guard /\ last.held = before[c]) => stock[c] = before[c] - i.quantity
            /\ ~last.guard => stock = before
            /\ components[last.pk].total_cost = i.unit_price * i.quantity
            /\ repairs[i.repair].total_cost = LineSum(i.repair)

\* C13 witness: the only stored line was saved twice, the second time with no field
\* changed; the stock of its component has dropped by twice its quantity and the
\* repair's total_cost is the line's cost, once.
C13_Witness ==
    /\ LastIs("RepairComponent.save")
    /\ last.pk \in DOMAIN last.pre.components
    /\ components = last.pre.components
    /\ DOMAIN components = {last.pk}
    /\ works = <<>>
    /\ ~last.inst.was_purchased
    /\ drawn[last.inst.component] = 2 * last.inst.quantity
    /\ stock[last.inst.component] = InitStock - 2 * last.inst.quantity
    /\ repairs[last.inst.repair].total_cost = last.inst.unit_price * last.inst.quantity
    /\ repairs[last.inst.repair].total_cost > 0

====
